---- MODULE Spec2Model ----
(***************************************************************************)
(* Lesson-plan approval workflow of dangthanhluu/duyetga.                  *)
(*                                                                         *)
(* The server (src/server.js) keeps one in-memory object db and exposes    *)
(* it through HTTP handlers; the browser application                       *)
(* (src/unnamed/part_000) keeps, per open session, the logged-in user and  *)
(* a copy of the data it fetched, decides from that copy which buttons to  *)
(* show, and sends the handlers their requests.  A handler runs without    *)
(* interruption up to its `await writeDb()`, so one handler is one step.   *)
(* disk is the file db.json with the fs.writeFile calls in flight: in most *)
(* specifications a handler's write settles within its step, SpecPersist   *)
(* lets requests arrive while writes are in flight.                        *)
(***************************************************************************)
EXTENDS Naturals, Sequences, FiniteSets, TLC

VARIABLES db, app, resp, disk

vars == <<db, app, resp, disk>>

----------------------------------------------------------------------------
(* enum Role *)
ADMIN == "ADMIN"
TEACHER == "TEACHER"
DEPUTY_TEAM_LEADER == "DEPUTY_TEAM_LEADER"
TEAM_LEADER == "TEAM_LEADER"
VICE_PRINCIPAL == "VICE_PRINCIPAL"
PRINCIPAL == "PRINCIPAL"

(* enum Status; UNKNOWN stands for any string that is not a member *)
DRAFT == "DRAFT"
SUBMITTED == "SUBMITTED"
REJECTED_BY_TL == "REJECTED_BY_TL"
APPROVED_BY_TL == "APPROVED_BY_TL"
APPROVED == "APPROVED"
REJECTED_BY_VP == "REJECTED_BY_VP"
ISSUED == "ISSUED"
UNKNOWN == "UNKNOWN"

Status == {DRAFT, SUBMITTED, REJECTED_BY_TL, APPROVED_BY_TL, APPROVED,
           REJECTED_BY_VP, ISSUED}

(* type HistoryAction (the labels, transliterated) *)
HistoryAction == {"Tao ban nhap", "Cap nhat ban nhap", "Nop Ke hoach bai day",
                  "Nop lai Ke hoach bai day", "To truong da duyet",
                  "To truong tu choi", "To truong huy duyet",
                  "Hieu truong da duyet", "Hieu truong tu choi",
                  "Hieu truong huy duyet", "Da ban hanh",
                  "Thu hoi de chinh sua", "Cap nhat trang thai"}

(* The identity of a user object. Every place that holds a user holds a  *)
(* reference: the record carries in ref which object it is. Objects that  *)
(* db.users holds have ref >= LiveRef; Detached marks a copy that         *)
(* JSON.parse made, which no element of db.users is.                      *)
Detached == 0
LiveRef == 1

(* JavaScript's undefined, for a user, a team id and a school id *)
NoUser == [id |-> 0, role |-> "undefined", teamId |-> 0, schoolId |-> "undefined",
           ref |-> Detached]
NoTeam == 0
NoSchool == "undefined"

BINHSON == "THCS-BINHSON"
SONTINH == "THPT-SONTINH"

User(id, role, teamId, schoolId) ==
    [id |-> id, role |-> role, teamId |-> teamId, schoolId |-> schoolId, ref |-> LiveRef]

MOCK_USERS_DATA ==
    << User(1, ADMIN, NoTeam, NoSchool),
       User(2, PRINCIPAL, NoTeam, BINHSON),
       User(3, VICE_PRINCIPAL, NoTeam, BINHSON),
       User(4, TEAM_LEADER, 1, BINHSON),
       User(5, DEPUTY_TEAM_LEADER, 1, BINHSON),
       User(6, TEACHER, 1, BINHSON),
       User(7, TEACHER, 1, BINHSON),
       User(8, TEAM_LEADER, 2, BINHSON),
       User(9, TEACHER, 2, BINHSON),
       User(10, PRINCIPAL, NoTeam, SONTINH),
       User(11, TEAM_LEADER, 3, SONTINH),
       User(12, TEACHER, 3, SONTINH) >>

Entry(action, user, reason) == [action |-> action, user |-> user, reason |-> reason]

Comment(user, text) == [user |-> user, text |-> text]

Plan(id, submittedBy, status, teamId, file, finalApprover, history, comments, schoolId) ==
    [id |-> id, title |-> "t0", submittedBy |-> submittedBy, status |-> status,
     teamId |-> teamId, file |-> file, finalApprover |-> finalApprover,
     history |-> history, comments |-> comments, schoolId |-> schoolId]

MOCK_DATA ==
    [schools |-> <<BINHSON, SONTINH>>,
     users |-> MOCK_USERS_DATA,
     teams |-> << [id |-> 1, leaderId |-> 4, deputyLeaderId |-> 5, schoolId |-> BINHSON],
                  [id |-> 2, leaderId |-> 8, deputyLeaderId |-> 0, schoolId |-> BINHSON],
                  [id |-> 3, leaderId |-> 11, deputyLeaderId |-> 0, schoolId |-> SONTINH] >>,
     lessonPlans |->
       << Plan(1, MOCK_USERS_DATA[6], SUBMITTED, 1, "f0", NoUser,
               << Entry("Nop Ke hoach bai day", MOCK_USERS_DATA[6], "") >>, << >>, BINHSON),
          Plan(2, MOCK_USERS_DATA[9], REJECTED_BY_TL, 2, "f0", NoUser,
               << Entry("Nop Ke hoach bai day", MOCK_USERS_DATA[9], ""),
                  Entry("To truong tu choi", MOCK_USERS_DATA[8], "r0") >>,
               << Comment(MOCK_USERS_DATA[8], "c0"), Comment(MOCK_USERS_DATA[9], "c1") >>,
               BINHSON),
          Plan(3, MOCK_USERS_DATA[7], APPROVED_BY_TL, 1, "f0", NoUser,
               << Entry("Nop Ke hoach bai day", MOCK_USERS_DATA[7], ""),
                  Entry("To truong da duyet", MOCK_USERS_DATA[4], "") >>, << >>, BINHSON),
          Plan(4, MOCK_USERS_DATA[9], ISSUED, 2, "f0", MOCK_USERS_DATA[2],
               << Entry("Nop Ke hoach bai day", MOCK_USERS_DATA[9], ""),
                  Entry("To truong da duyet", MOCK_USERS_DATA[8], ""),
                  Entry("Hieu truong da duyet", MOCK_USERS_DATA[2], ""),
                  Entry("Da ban hanh", MOCK_USERS_DATA[2], "") >>, << >>, BINHSON),
          Plan(5, MOCK_USERS_DATA[7], DRAFT, 1, "f0", NoUser,
               << Entry("Tao ban nhap", MOCK_USERS_DATA[7], "") >>, << >>, BINHSON),
          Plan(6, MOCK_USERS_DATA[12], SUBMITTED, 3, "f0", NoUser,
               << Entry("Nop Ke hoach bai day", MOCK_USERS_DATA[12], "") >>, << >>, SONTINH) >>,
     delegation |-> [principalToVp |-> FALSE,
                     teamDelegation |-> [t \in {1, 2, 3} |-> FALSE]]]

----------------------------------------------------------------------------
(* Array.prototype.findIndex / find on an id; 0 stands for -1 / undefined *)
FindIndex(arr, id) ==
    IF \E i \in 1..Len(arr) : arr[i].id = id
    THEN CHOOSE i \in 1..Len(arr) :
            arr[i].id = id /\ \A j \in 1..(i - 1) : arr[j].id # id
    ELSE 0

FindUser(users, id) ==
    IF FindIndex(users, id) = 0 THEN NoUser ELSE users[FindIndex(users, id)]

FindPlan(plans, id) == plans[FindIndex(plans, id)]

HasPlan(plans, id) == FindIndex(plans, id) # 0

(* String.prototype.trim on the texts the model sends *)
Trim(text) ==
    CASE text = " " -> ""
      [] text = " hi " -> "hi"
      [] OTHER -> text

(* `reason && {reason}`: an empty or absent reason adds no field, written "" *)
Truthy(reason) == reason # ""

----------------------------------------------------------------------------
(* The user every handler acts as: db.users.find(u => u.id === 4) *)
MockUserId == 4

(* PUT /api/lesson-plans/:id/status, the switch on newStatus *)
StatusAction(newStatus) ==
    CASE newStatus = SUBMITTED -> "Nop lai Ke hoach bai day"
      [] newStatus = REJECTED_BY_TL -> "To truong tu choi"
      [] newStatus = APPROVED_BY_TL -> "To truong da duyet"
      [] newStatus = APPROVED -> "Hieu truong da duyet"
      [] newStatus = REJECTED_BY_VP -> "Hieu truong tu choi"
      [] newStatus = ISSUED -> "Da ban hanh"
      [] newStatus = DRAFT -> "Thu hoi de chinh sua"
      [] OTHER -> "Cap nhat trang thai"

(* A status handler without the lookup of the plan: it answers 200 for   *)
(* any id                                                                *)
PutStatusUnchecked(d, id, newStatus, reason) == [db |-> d, code |-> 200]

(* PUT /api/lesson-plans/:id/status *)
PutStatus(d, id, newStatus, reason) ==
    LET currentUser == FindUser(d.users, MockUserId)
        planIndex == FindIndex(d.lessonPlans, id)
    IN  IF planIndex = 0
        THEN [db |-> d, code |-> 404]
        ELSE LET plan == d.lessonPlans[planIndex]
                 issued == IF newStatus = ISSUED
                           THEN [plan EXCEPT !.finalApprover = currentUser]
                           ELSE plan
                 next == [issued EXCEPT
                            !.status = newStatus,
                            !.history = Append(@, Entry(StatusAction(newStatus), currentUser,
                                                        IF Truthy(reason) THEN reason ELSE ""))]
             IN  [db |-> [d EXCEPT !.lessonPlans[planIndex] = next], code |-> 200]

(* Object.assign(target, source): every field of source, then the fields *)
(* of target that source does not have                                   *)
ObjectAssign(target, source) ==
    [k \in DOMAIN target \cup DOMAIN source |->
        IF k \in DOMAIN source THEN source[k] ELSE target[k]]

(* PUT /api/lesson-plans/:id ; file = "" when no file is uploaded *)
PutLessonPlan(d, id, details, file, isDraft) ==
    LET planIndex == FindIndex(d.lessonPlans, id)
    IN  IF planIndex = 0
        THEN [db |-> d, code |-> 404]
        ELSE LET plan == d.lessonPlans[planIndex]
                 updater == FindUser(d.users, plan.submittedBy.id)
             IN  IF updater = NoUser
                 THEN [db |-> d, code |-> 404]
                 ELSE LET assigned == ObjectAssign(plan, details)
                          filed == IF file # "" THEN [assigned EXCEPT !.file = file]
                                   ELSE assigned
                          oldStatus == filed.status
                          newStatus == IF isDraft THEN DRAFT ELSE SUBMITTED
                          action == IF oldStatus = DRAFT THEN "Nop Ke hoach bai day"
                                    ELSE "Nop lai Ke hoach bai day"
                          next == IF oldStatus # newStatus \/ file # ""
                                  THEN [filed EXCEPT
                                          !.status = newStatus,
                                          !.history = Append(@, Entry(action, updater, ""))]
                                  ELSE filed
                      IN  [db |-> [d EXCEPT !.lessonPlans[planIndex] = next], code |-> 200]

(* A comment handler that tests the text without trimming it *)
PostCommentUntrimmed(d, id, text) ==
    LET planIndex == FindIndex(d.lessonPlans, id)
    IN  IF text = "" THEN [db |-> d, code |-> 400]
        ELSE IF planIndex = 0 THEN [db |-> d, code |-> 404]
        ELSE [db |-> [d EXCEPT !.lessonPlans[planIndex].comments =
                                   Append(@, Comment(FindUser(d.users, MockUserId), text))],
              code |-> 200]

(* POST /api/lesson-plans/:id/comments *)
PostComment(d, id, text) ==
    LET currentUser == FindUser(d.users, MockUserId)
        planIndex == FindIndex(d.lessonPlans, id)
    IN  IF currentUser = NoUser THEN [db |-> d, code |-> 401]
        ELSE IF Trim(text) = "" THEN [db |-> d, code |-> 400]
        ELSE IF planIndex = 0 THEN [db |-> d, code |-> 404]
        ELSE [db |-> [d EXCEPT !.lessonPlans[planIndex].comments =
                                   Append(@, Comment(currentUser, Trim(text)))],
              code |-> 200]

(* PUT /api/delegation *)
PutDelegation(d, newDelegation) ==
    [db |-> [d EXCEPT !.delegation = newDelegation], code |-> 200]

(* Date.now() as the id of a new plan: later than every id in use *)
DateNow(d) ==
    LET ids == {d.lessonPlans[i].id : i \in 1..Len(d.lessonPlans)}
    IN  1 + CHOOSE m \in ids : \A n \in ids : n <= m

(* The submitter every created plan gets: db.users.find(u => u.id === 6) *)
MockSubmitterId == 6

(* POST /api/lesson-plans ; file = "" when no file is uploaded *)
PostLessonPlan(d, details, file, isDraft) ==
    LET submitter == FindUser(d.users, MockSubmitterId)
        newPlan ==
            ObjectAssign(
                ObjectAssign([id |-> DateNow(d), finalApprover |-> NoUser], details),
                [submittedBy |-> submitter,
                 teamId |-> submitter.teamId,
                 status |-> IF isDraft THEN DRAFT ELSE SUBMITTED,
                 file |-> file,
                 history |-> << Entry(IF isDraft THEN "Tao ban nhap"
                                      ELSE "Nop Ke hoach bai day", submitter, "") >>,
                 comments |-> << >>])
    IN  IF file = "" THEN [db |-> d, code |-> 400]
        ELSE IF submitter = NoUser THEN [db |-> d, code |-> 404]
        ELSE [db |-> [d EXCEPT !.lessonPlans = Append(@, newPlan)], code |-> 201]

(* What a reference u shows: with detach, the copy JSON.stringify writes; *)
(* otherwise, when u is the object obj, the role assigned to obj          *)
Seen(u, obj, role, detach) ==
    IF detach THEN [u EXCEPT !.ref = Detached]
    ELSE IF u.ref # Detached /\ u.ref = obj.ref /\ u.id = obj.id
         THEN [u EXCEPT !.role = role]
         ELSE u

(* Every user a plan holds: submittedBy, finalApprover, the users of its *)
(* history entries and of its comments, each as Seen                     *)
MapEmbedded(d, obj, role, detach) ==
    [d EXCEPT !.lessonPlans =
        [i \in 1..Len(d.lessonPlans) |->
            LET plan == d.lessonPlans[i]
            IN  [plan EXCEPT
                    !.submittedBy = Seen(@, obj, role, detach),
                    !.finalApprover = Seen(@, obj, role, detach),
                    !.history = [j \in 1..Len(plan.history) |->
                                    [plan.history[j] EXCEPT
                                        !.user = Seen(@, obj, role, detach)]],
                    !.comments = [j \in 1..Len(plan.comments) |->
                                    [plan.comments[j] EXCEPT
                                        !.user = Seen(@, obj, role, detach)]]]]]

(* db.users[index].role = role: an assignment to the object itself, seen *)
(* through every reference to it                                         *)
SetRoleInPlace(d, index, role) ==
    MapEmbedded([d EXCEPT !.users[index].role = role], d.users[index], role, FALSE)

(* assign-role without its demotion of the previous holder *)
AssignRoleKeepingHolder(d, id, roleType, userId) ==
    LET teamIndex == FindIndex(d.teams, id)
        newLeaderIndex == FindIndex(d.users, userId)
        assigned == IF roleType = "leader"
                    THEN [d EXCEPT !.teams[teamIndex].leaderId = userId]
                    ELSE [d EXCEPT !.teams[teamIndex].deputyLeaderId = userId]
    IN  IF teamIndex = 0
        THEN [db |-> d, code |-> 404, updatedUsers |-> << >>]
        ELSE IF userId # 0 /\ newLeaderIndex # 0
        THEN [db |-> [assigned EXCEPT !.users[newLeaderIndex].role =
                         IF roleType = "leader" THEN TEAM_LEADER ELSE DEPUTY_TEAM_LEADER],
              code |-> 200, updatedUsers |-> << userId >>]
        ELSE [db |-> assigned, code |-> 200, updatedUsers |-> << >>]

(* POST /api/teams/:id/assign-role ; userId = 0 clears the position;     *)
(* updatedUsers holds the ids of the users the response lists            *)
AssignRole(d, id, roleType, userId) ==
    LET teamIndex == FindIndex(d.teams, id)
    IN  IF teamIndex = 0
        THEN [db |-> d, code |-> 404, updatedUsers |-> << >>]
        ELSE LET team == d.teams[teamIndex]
                 userToDemoteId == IF roleType = "leader" THEN team.leaderId
                                   ELSE team.deputyLeaderId
                 assigned == IF roleType = "leader"
                             THEN [d EXCEPT !.teams[teamIndex].leaderId = userId]
                             ELSE [d EXCEPT !.teams[teamIndex].deputyLeaderId = userId]
                 oldLeaderIndex == FindIndex(d.users, userToDemoteId)
                 demoted == IF userToDemoteId # 0 /\ userToDemoteId # userId
                                /\ oldLeaderIndex # 0
                            THEN SetRoleInPlace(assigned, oldLeaderIndex, TEACHER)
                            ELSE assigned
                 newLeaderIndex == FindIndex(d.users, userId)
                 promoted == IF userId # 0 /\ newLeaderIndex # 0
                             THEN SetRoleInPlace(demoted, newLeaderIndex,
                                                 IF roleType = "leader" THEN TEAM_LEADER
                                                 ELSE DEPUTY_TEAM_LEADER)
                             ELSE demoted
                 updatedUsers ==
                     (IF userToDemoteId # 0 /\ userToDemoteId # userId
                         /\ oldLeaderIndex # 0
                      THEN << userToDemoteId >> ELSE << >>)
                     \o (IF userId # 0 /\ newLeaderIndex # 0
                         THEN << userId >> ELSE << >>)
             IN  [db |-> promoted, code |-> 200, updatedUsers |-> updatedUsers]

(* PUT /api/users/:id : db.users[userIndex] becomes a new object, the    *)
(* references to the old one keep the old one                            *)
PutUser(d, id, updatedDetails) ==
    LET userIndex == FindIndex(d.users, id)
    IN  IF userIndex = 0
        THEN [db |-> d, code |-> 404]
        ELSE [db |-> [d EXCEPT !.users[userIndex] =
                         [ObjectAssign(@, updatedDetails) EXCEPT !.ref = @ + 1]],
              code |-> 200]

(* writeDb: JSON.stringify(db), a text without object identity *)
writeDb(d) ==
    MapEmbedded([d EXCEPT !.users = [i \in 1..Len(d.users) |->
                                        [d.users[i] EXCEPT !.ref = Detached]]],
                NoUser, "", TRUE)

(* The codes of the answers a handler sends after `await writeDb()` *)
Written == {200, 201, 204}

(* db.json after a handler whose writeDb settles before the next request *)
(* arrives: the file holds what the handler left in db                   *)
Saved(r) ==
    IF r.code \in Written THEN [disk EXCEPT !.file = writeDb(r.db)] ELSE disk

(* readDb: JSON.parse of the file; its users are the new objects of db.users *)
readDb(file) ==
    [file EXCEPT !.users = [i \in 1..Len(file.users) |->
                               [file.users[i] EXCEPT !.ref = LiveRef]]]

----------------------------------------------------------------------------
(* Bounds of the model: history entries and comments appended after Init *)
MaxHistory == 2
MaxComments == 1

RECURSIVE SumLen(_, _)
SumLen(plans, field) ==
    IF plans = << >> THEN 0
    ELSE Len(Head(plans)[field]) + SumLen(Tail(plans), field)

(* The plans of MOCK_DATA that d still holds *)
Kept(d) ==
    LET held(p) == HasPlan(d.lessonPlans, p.id)
    IN  SelectSeq(MOCK_DATA.lessonPlans, held)

Bounded(d) ==
    /\ SumLen(d.lessonPlans, "history") <= SumLen(Kept(d), "history") + MaxHistory
    /\ SumLen(d.lessonPlans, "comments") <= SumLen(Kept(d), "comments") + MaxComments

(* The requests the model sends *)
Clients == {"c1"}
PlanIdInputs == {1}
StatusInputs == Status \cup {UNKNOWN}
ReasonInputs == {"", "r"}
TextInputs == {"", " ", "hi", " hi "}
FileInputs == {"", "f1"}
DetailsInputs == {[title |-> "t1", schoolId |-> BINHSON]}
SenderInputs == {5, 12}

(* useState initial values of App, then initializeApp without a stored session *)
AppInit ==
    [currentUser |-> NoUser, selectedSchool |-> NoSchool,
     lessonPlans |-> MOCK_DATA.lessonPlans, teams |-> MOCK_DATA.teams,
     delegation |-> MOCK_DATA.delegation]

NoResp == [op |-> "none", client |-> "none", sender |-> 0, code |-> 0]

(* db.json after startServer, with no fs.writeFile in flight *)
DiskInit == [file |-> writeDb(MOCK_DATA), pending |-> {}]

Init ==
    /\ db = MOCK_DATA
    /\ app = [c \in Clients |-> AppInit]
    /\ resp = NoResp
    /\ disk = DiskInit

----------------------------------------------------------------------------
(* Requests sent straight to the handlers.  `sender` is the user whose      *)
(* bearer token the request carries (api(), the Authorization header); no   *)
(* handler reads it.                                                        *)

ApiPutStatus(sender, id, newStatus, reason) ==
    LET r == PutStatus(db, id, newStatus, reason)
    IN  /\ Bounded(r.db)
        /\ db' = r.db
        /\ disk' = Saved(r)
        /\ resp' = [op |-> "PutStatus", client |-> "api", sender |-> sender, code |-> r.code,
                    id |-> id, newStatus |-> newStatus, reason |-> reason]
        /\ UNCHANGED app

ApiPutLessonPlan(sender, id, details, file, isDraft) ==
    LET r == PutLessonPlan(db, id, details, file, isDraft)
    IN  /\ Bounded(r.db)
        /\ db' = r.db
        /\ disk' = Saved(r)
        /\ resp' = [op |-> "PutLessonPlan", client |-> "api", sender |-> sender,
                    code |-> r.code, id |-> id, isDraft |-> isDraft, file |-> file]
        /\ UNCHANGED app

ApiPostComment(sender, id, text) ==
    LET r == PostComment(db, id, text)
    IN  /\ Bounded(r.db)
        /\ db' = r.db
        /\ disk' = Saved(r)
        /\ resp' = [op |-> "PostComment", client |-> "api", sender |-> sender,
                    code |-> r.code, id |-> id, text |-> text]
        /\ UNCHANGED app

ApiPutDelegation(sender, newDelegation) ==
    LET r == PutDelegation(db, newDelegation)
    IN  /\ db' = r.db
        /\ disk' = Saved(r)
        /\ resp' = [op |-> "PutDelegation", client |-> "api", sender |-> sender,
                    code |-> r.code]
        /\ UNCHANGED app

DelegationInputs ==
    {[principalToVp |-> v, teamDelegation |-> [t \in {1, 2, 3} |-> t = 1 /\ f]] :
        v \in BOOLEAN, f \in BOOLEAN}

Next ==
    \/ \E u \in SenderInputs, id \in PlanIdInputs, s \in StatusInputs, r \in ReasonInputs :
          ApiPutStatus(u, id, s, r)
    \/ \E u \in SenderInputs, id \in PlanIdInputs, dt \in DetailsInputs,
          f \in FileInputs, dr \in BOOLEAN :
          ApiPutLessonPlan(u, id, dt, f, dr)
    \/ \E u \in SenderInputs, id \in PlanIdInputs, t \in TextInputs :
          ApiPostComment(u, id, t)

Spec == Init /\ [][Next]_vars

----------------------------------------------------------------------------
(* SpecRoles: the requests that change users, next to the requests that   *)
(* record them, and a restart of the server                               *)
MaxUserUpdates == 1

ApiAssignRole(sender, id, roleType, userId) ==
    LET r == AssignRole(db, id, roleType, userId)
    IN  /\ db' = r.db
        /\ disk' = Saved(r)
        /\ resp' = [op |-> "AssignRole", client |-> "api", sender |-> sender,
                    code |-> r.code, id |-> id, roleType |-> roleType, userId |-> userId,
                    updatedUsers |-> r.updatedUsers]
        /\ UNCHANGED app

ApiPutUser(sender, id, updatedDetails) ==
    LET r == PutUser(db, id, updatedDetails)
    IN  /\ \A i \in 1..Len(r.db.users) : r.db.users[i].ref <= LiveRef + MaxUserUpdates
        /\ db' = r.db
        /\ disk' = Saved(r)
        /\ resp' = [op |-> "PutUser", client |-> "api", sender |-> sender,
                    code |-> r.code, id |-> id]
        /\ UNCHANGED app

(* The process stops, its writes in flight with it, and startServer runs *)
(* again: db = await readDb()                                            *)
startServer ==
    /\ db' = readDb(disk.file)
    /\ disk' = [disk EXCEPT !.pending = {}]
    /\ resp' = [op |-> "startServer", client |-> "none", sender |-> 0, code |-> 0]
    /\ UNCHANGED app

RoleTeamInputs == {1}
RoleTypeInputs == {"leader", "deputy"}
RoleUserInputs == {0, 5}
UserUpdateInputs == {[role |-> TEACHER]}

NextRoles ==
    \/ \E id \in PlanIdInputs : ApiPutStatus(4, id, APPROVED_BY_TL, "")
    \/ \E id \in PlanIdInputs : ApiPostComment(4, id, "hi")
    \/ \E t \in RoleTeamInputs, ty \in RoleTypeInputs, u \in RoleUserInputs :
          ApiAssignRole(2, t, ty, u)
    \/ \E d \in UserUpdateInputs : ApiPutUser(2, 4, d)
    \/ startServer

SpecRoles == Init /\ [][NextRoles]_vars

----------------------------------------------------------------------------
(* SpecEdit: edit requests whose details carry more than the form's fields *)
OverwriteInputs == {[title |-> "t1", schoolId |-> BINHSON, history |-> << >>]}
EditStatusInputs == {APPROVED_BY_TL, REJECTED_BY_TL, DRAFT}

NextEdit ==
    \/ \E id \in PlanIdInputs, st \in EditStatusInputs, r \in ReasonInputs :
          ApiPutStatus(4, id, st, r)
    \/ \E id \in PlanIdInputs, d \in DetailsInputs \cup OverwriteInputs,
          f \in FileInputs, dr \in BOOLEAN : ApiPutLessonPlan(6, id, d, f, dr)
    \/ \E id \in PlanIdInputs : ApiPostComment(4, id, "hi")

SpecEdit == Init /\ [][NextEdit]_vars

----------------------------------------------------------------------------
(* SpecRequests: requests for a plan the server holds and for an id it    *)
(* does not hold                                                          *)
MissingId == 99
RequestIdInputs == {1, MissingId}
RequestStatusInputs == {APPROVED_BY_TL, DRAFT}

NextRequests ==
    \/ \E id \in RequestIdInputs, st \in RequestStatusInputs : ApiPutStatus(5, id, st, "")
    \/ \E id \in RequestIdInputs, d \in DetailsInputs, f \in FileInputs, dr \in BOOLEAN :
          ApiPutLessonPlan(6, id, d, f, dr)
    \/ \E id \in RequestIdInputs, t \in TextInputs : ApiPostComment(5, id, t)

SpecRequests == Init /\ [][NextRequests]_vars

----------------------------------------------------------------------------
(* The browser application, one App component per client                    *)

(* App: schoolData.lessonPlans, and the lessonPlans prop of Dashboard *)
schoolData(a) ==
    LET InSchool(p) == p.schoolId = a.selectedSchool
    IN  IF a.selectedSchool = NoSchool THEN << >> ELSE SelectSeq(a.lessonPlans, InSchool)

DashboardPlans(a) ==
    IF a.currentUser.role = ADMIN THEN a.lessonPlans ELSE schoolData(a)

(* A dashboard that lists a school's plans to every role *)
baseVisiblePlansUnfiltered(currentUser, lessonPlans) == lessonPlans

(* Dashboard: baseVisiblePlans *)
baseVisiblePlans(currentUser, lessonPlans) ==
    LET Own(p) == p.submittedBy.id = currentUser.id
        Team(p) == p.teamId = currentUser.teamId
        Late(p) == p.status \in {APPROVED_BY_TL, REJECTED_BY_VP, APPROVED, ISSUED}
    IN  CASE currentUser.role = TEACHER -> SelectSeq(lessonPlans, Own)
          [] currentUser.role = DEPUTY_TEAM_LEADER -> SelectSeq(lessonPlans, Team)
          [] currentUser.role = TEAM_LEADER -> SelectSeq(lessonPlans, Team)
          [] currentUser.role = VICE_PRINCIPAL -> SelectSeq(lessonPlans, Late)
          [] currentUser.role = PRINCIPAL -> lessonPlans
          [] OTHER -> << >>

(* The cards a logged-in client shows *)
Cards(a) ==
    IF a.currentUser = NoUser THEN << >>
    ELSE baseVisiblePlans(a.currentUser, DashboardPlans(a))

(* A team guard in which the flag gates the leader as well: switching the *)
(* flag off would take the leader's buttons away                          *)
canApproveTeamRevoking(currentUser, plan, delegation) ==
    /\ currentUser.role \in {TEAM_LEADER, DEPUTY_TEAM_LEADER}
    /\ currentUser.teamId = plan.teamId
    /\ delegation.teamDelegation[plan.teamId]

(* LessonPlanCard.renderApprovalActions: the two guards *)
canApproveTeam(currentUser, plan, delegation) ==
    \/ currentUser.role = TEAM_LEADER /\ currentUser.teamId = plan.teamId
    \/ /\ currentUser.role = DEPUTY_TEAM_LEADER
       /\ currentUser.teamId = plan.teamId
       /\ delegation.teamDelegation[plan.teamId]

canApprovePrincipal(currentUser, delegation) ==
    \/ currentUser.role = PRINCIPAL
    \/ currentUser.role = VICE_PRINCIPAL /\ delegation.principalToVp

(* LessonPlanCard.renderApprovalActions: the buttons it returns *)
renderApprovalActions(currentUser, plan, delegation) ==
    IF currentUser.role = TEACHER THEN {}
    ELSE IF canApproveTeam(currentUser, plan, delegation) /\ plan.status = SUBMITTED
         THEN {"approve", "reject"}
    ELSE IF canApproveTeam(currentUser, plan, delegation) /\ plan.status = APPROVED_BY_TL
         THEN {"cancel"}
    ELSE IF canApprovePrincipal(currentUser, delegation) /\ plan.status = APPROVED_BY_TL
         THEN {"approve", "reject"}
    ELSE IF canApprovePrincipal(currentUser, delegation) /\ plan.status = APPROVED
         THEN {"cancel"}
    ELSE {}

(* Teacher's buttons without "Thu hoi" *)
renderTeacherActionsNoRecall(currentUser, plan) ==
    IF currentUser.role # TEACHER \/ currentUser.id # plan.submittedBy.id THEN {}
    ELSE CASE plan.status = DRAFT -> {"edit", "submit"}
           [] plan.status \in {REJECTED_BY_TL, REJECTED_BY_VP} -> {"edit"}
           [] OTHER -> {}

(* LessonPlanCard.renderTeacherActions: the buttons it returns *)
renderTeacherActions(currentUser, plan) ==
    IF currentUser.role # TEACHER \/ currentUser.id # plan.submittedBy.id THEN {}
    ELSE CASE plan.status = DRAFT -> {"edit", "submit"}
           [] plan.status \in {REJECTED_BY_TL, REJECTED_BY_VP} -> {"edit"}
           [] plan.status \in {SUBMITTED, APPROVED_BY_TL} -> {"recall"}
           [] OTHER -> {}

(* The footer of a card: an issued plan shows renderIssuedFooter, no buttons *)
Buttons(a, plan) ==
    IF plan.status = ISSUED THEN {}
    ELSE renderApprovalActions(a.currentUser, plan, a.delegation)
            \cup renderTeacherActions(a.currentUser, plan)

(* A confirm dialog whose approve asks for the institution's approval   *)
(* whatever the status of the plan                                      *)
handleConfirmActionOneTier(actionType, reason, currentUser, plan) ==
    IF actionType = "reject" /\ Trim(reason) = "" THEN "return"
    ELSE IF actionType = "approve" THEN APPROVED
    ELSE IF actionType = "cancel" THEN APPROVED_BY_TL
    ELSE REJECTED_BY_VP

(* LessonPlanCard.handleConfirmAction: the status it asks for; "return" when *)
(* it closes the dialog or shows the missing-reason notification             *)
handleConfirmAction(actionType, reason, currentUser, plan) ==
    IF actionType = "reject" /\ Trim(reason) = "" THEN "return"
    ELSE IF actionType = "approve"
         THEN CASE plan.status = SUBMITTED -> APPROVED_BY_TL
                [] plan.status = APPROVED_BY_TL -> APPROVED
                [] OTHER -> "return"
    ELSE IF actionType = "cancel"
         THEN CASE plan.status = APPROVED_BY_TL -> SUBMITTED
                [] plan.status = APPROVED -> APPROVED_BY_TL
                [] OTHER -> "return"
    ELSE CASE currentUser.role \in {TEAM_LEADER, DEPUTY_TEAM_LEADER} -> REJECTED_BY_TL
           [] currentUser.role \in {PRINCIPAL, VICE_PRINCIPAL} -> REJECTED_BY_VP
           [] OTHER -> "return"

(* setLessonPlans(prev => prev.map(p => p.id === planId ? updatedPlan : p)) *)
ReplacePlan(plans, planId, updatedPlan) ==
    [i \in 1..Len(plans) |-> IF plans[i].id = planId THEN updatedPlan ELSE plans[i]]

(* App.handleLessonPlanAction, sent by client c: the request and its answer *)
handleLessonPlanAction(c, planId, newStatus, reason) ==
    LET r == PutStatus(db, planId, newStatus, reason)
    IN  /\ app[c].currentUser # NoUser
        /\ Bounded(r.db)
        /\ db' = r.db
        /\ disk' = Saved(r)
        /\ resp' = [op |-> "PutStatus", client |-> c, sender |-> app[c].currentUser.id,
                    code |-> r.code, id |-> planId, newStatus |-> newStatus,
                    reason |-> reason]
        /\ app' = IF r.code = 200
                  THEN [app EXCEPT ![c].lessonPlans =
                           ReplacePlan(@, planId, FindPlan(r.db.lessonPlans, planId))]
                  ELSE app

(* An approve / reject / cancel button of a card, then the dialog's confirm *)
ClickApproval(c, planId, actionType, reason) ==
    /\ HasPlan(Cards(app[c]), planId)
    /\ LET plan == FindPlan(Cards(app[c]), planId)
           newStatus == handleConfirmAction(actionType, reason, app[c].currentUser, plan)
       IN  /\ actionType \in Buttons(app[c], plan)
           /\ IF newStatus = "return"
              THEN /\ resp' = [op |-> "handleConfirmAction", client |-> c,
                               sender |-> app[c].currentUser.id, code |-> 0,
                               id |-> planId, actionType |-> actionType, reason |-> reason]
                   /\ UNCHANGED <<db, app, disk>>
              ELSE handleLessonPlanAction(c, planId, newStatus, reason)

(* The teacher's buttons "Nop duyet" and "Thu hoi" *)
ClickSubmit(c, planId) ==
    /\ HasPlan(Cards(app[c]), planId)
    /\ "submit" \in Buttons(app[c], FindPlan(Cards(app[c]), planId))
    /\ handleLessonPlanAction(c, planId, SUBMITTED, "")

ClickRecall(c, planId) ==
    /\ HasPlan(Cards(app[c]), planId)
    /\ "recall" \in Buttons(app[c], FindPlan(Cards(app[c]), planId))
    /\ handleLessonPlanAction(c, planId, DRAFT, "")

(* App.handleSaveLessonPlan with editingLessonPlan set (the "edit" button, *)
(* then UploadModal.processAndSave); file = "" keeps the existing file     *)
handleSaveLessonPlan(c, planId, title, file, isDraft) ==
    LET fullDetails == [title |-> title, schoolId |-> app[c].selectedSchool]
        r == PutLessonPlan(db, planId, fullDetails, file, isDraft)
    IN  /\ app[c].currentUser # NoUser
        /\ app[c].selectedSchool # NoSchool
        /\ HasPlan(Cards(app[c]), planId)
        /\ "edit" \in Buttons(app[c], FindPlan(Cards(app[c]), planId))
        /\ Bounded(r.db)
        /\ db' = r.db
        /\ disk' = Saved(r)
        /\ resp' = [op |-> "PutLessonPlan", client |-> c, sender |-> app[c].currentUser.id,
                    code |-> r.code, id |-> planId, isDraft |-> isDraft, file |-> file]
        /\ app' = IF r.code = 200
                  THEN [app EXCEPT ![c].lessonPlans =
                           ReplacePlan(@, planId, FindPlan(r.db.lessonPlans, planId))]
                  ELSE app

(* Bound of the model: plans created after Init *)
MaxPlans == 1

(* The upload button of the dashboard, then UploadModal.processAndSave and *)
(* App.handleSaveLessonPlan with editingLessonPlan null: a file is required *)
handleCreateLessonPlan(c, title, file, isDraft) ==
    LET fullDetails == [title |-> title, schoolId |-> app[c].selectedSchool]
        r == PostLessonPlan(db, fullDetails, file, isDraft)
    IN  /\ app[c].currentUser # NoUser
        /\ app[c].selectedSchool # NoSchool
        /\ file # ""
        /\ Len(r.db.lessonPlans) <= Len(MOCK_DATA.lessonPlans) + MaxPlans
        /\ Bounded(r.db)
        /\ db' = r.db
        /\ disk' = Saved(r)
        /\ resp' = [op |-> "PostLessonPlan", client |-> c, sender |-> app[c].currentUser.id,
                    code |-> r.code, id |-> DateNow(db), isDraft |-> isDraft, file |-> file]
        /\ app' = IF r.code = 201
                  THEN [app EXCEPT ![c].lessonPlans =
                           Append(@, r.db.lessonPlans[Len(r.db.lessonPlans)])]
                  ELSE app

(* LessonPlanCard.handleCommentSubmit, then App.handleAddComment *)
handleAddComment(c, planId, text) ==
    LET r == PostComment(db, planId, Trim(text))
    IN  /\ HasPlan(Cards(app[c]), planId)
        /\ FindPlan(Cards(app[c]), planId).status \notin {ISSUED, DRAFT}
        /\ Trim(text) # ""
        /\ Bounded(r.db)
        /\ db' = r.db
        /\ disk' = Saved(r)
        /\ resp' = [op |-> "PostComment", client |-> c, sender |-> app[c].currentUser.id,
                    code |-> r.code, id |-> planId, text |-> Trim(text)]
        /\ app' = IF r.code = 200
                  THEN [app EXCEPT ![c].lessonPlans =
                           ReplacePlan(@, planId, FindPlan(r.db.lessonPlans, planId))]
                  ELSE app

(* AdminModal.handleDelegationChange, then App.handleSetDelegation.  The   *)
(* modal opens for a principal or the global admin and lists the teams of  *)
(* adminSelectedSchoolId                                                   *)
handleDelegationChange(c, type, teamId, adminSelectedSchoolId) ==
    LET delegation == app[c].delegation
        newDelegation ==
            IF type = "vp"
            THEN [delegation EXCEPT !.principalToVp = ~@]
            ELSE [delegation EXCEPT !.teamDelegation[teamId] = ~@]
        r == PutDelegation(db, newDelegation)
    IN  /\ app[c].currentUser.role \in {PRINCIPAL, ADMIN}
        /\ app[c].currentUser.role # ADMIN => adminSelectedSchoolId = app[c].selectedSchool
        /\ type = "team" =>
              \E i \in 1..Len(app[c].teams) :
                  /\ app[c].teams[i].id = teamId
                  /\ app[c].teams[i].schoolId = adminSelectedSchoolId
        /\ db' = r.db
        /\ disk' = Saved(r)
        /\ resp' = [op |-> "PutDelegation", client |-> c, sender |-> app[c].currentUser.id,
                    code |-> r.code, school |-> adminSelectedSchoolId]
        /\ app' = [app EXCEPT ![c].delegation = r.db.delegation]

(* const MOCK_USERS of the client: the same twelve users *)
MOCK_USERS == MOCK_USERS_DATA

(* handleSelectSchool / handleGlobalAdminLogin, then handleLogin or        *)
(* handleO365Login: the user comes from MOCK_USERS                         *)
handleLogin(c, userId) ==
    LET user == FindUser(MOCK_USERS, userId)
    IN  /\ app[c].currentUser = NoUser
        /\ user # NoUser
        /\ app' = [app EXCEPT ![c].currentUser = user,
                              ![c].selectedSchool = user.schoolId]
        /\ resp' = NoResp
        /\ UNCHANGED <<db, disk>>

handleLogout(c) ==
    /\ app[c].currentUser # NoUser
    /\ app' = [app EXCEPT ![c].currentUser = NoUser, ![c].selectedSchool = NoSchool]
    /\ resp' = NoResp
    /\ UNCHANGED <<db, disk>>

(* The page is loaded again: initializeApp fetches /api/bootstrap and      *)
(* restores the stored session from the users it fetched                   *)
initializeApp(c) ==
    LET user == IF app[c].currentUser = NoUser THEN NoUser
                ELSE FindUser(db.users, app[c].currentUser.id)
        school == IF user # NoUser /\ (\E i \in 1..Len(db.schools) : db.schools[i] = user.schoolId)
                  THEN user.schoolId ELSE NoSchool
    IN  /\ app' = [app EXCEPT ![c] = [currentUser |-> user, selectedSchool |-> school,
                                      lessonPlans |-> db.lessonPlans, teams |-> db.teams,
                                      delegation |-> db.delegation]]
        /\ resp' = NoResp
        /\ UNCHANGED <<db, disk>>

----------------------------------------------------------------------------
(* SpecUI: one browser session working through its buttons, while        *)
(* requests of other sessions reach the handlers                          *)
LoginInputs == {2, 3, 4, 5, 6}
UiPlanIds == {1}
TitleInputs == {"t1"}
OtherSenders == {4}
OtherStatusInputs == {APPROVED_BY_TL}

NextUI ==
    \/ \E c \in Clients, u \in LoginInputs : handleLogin(c, u)
    \/ \E c \in Clients : handleLogout(c)
    \/ \E c \in Clients : initializeApp(c)
    \/ \E c \in Clients, id \in UiPlanIds, t \in {"approve", "reject", "cancel"},
          r \in ReasonInputs : ClickApproval(c, id, t, r)
    \/ \E c \in Clients, id \in UiPlanIds : ClickSubmit(c, id)
    \/ \E c \in Clients, id \in UiPlanIds : ClickRecall(c, id)
    \/ \E c \in Clients, id \in UiPlanIds, t \in TitleInputs, f \in FileInputs, dr \in BOOLEAN :
          handleSaveLessonPlan(c, id, t, f, dr)
    \/ \E c \in Clients, ty \in {"vp", "team"}, t \in {1}, sc \in {BINHSON} :
          handleDelegationChange(c, ty, t, sc)
    \/ \E u \in OtherSenders, id \in UiPlanIds, st \in OtherStatusInputs :
          ApiPutStatus(u, id, st, "")
    \/ \E u \in {2}, nd \in DelegationInputs : ApiPutDelegation(u, nd)

SpecUI == Init /\ [][NextUI]_vars

----------------------------------------------------------------------------
(* SpecCreate: a teacher's session that creates plans and works on them *)
TeacherInputs == {6, 7}
CreatePlanIds == {1, 7}

NextCreate ==
    \/ \E c \in Clients, u \in TeacherInputs : handleLogin(c, u)
    \/ \E c \in Clients : handleLogout(c)
    \/ \E c \in Clients : initializeApp(c)
    \/ \E c \in Clients, t \in TitleInputs, f \in FileInputs, dr \in BOOLEAN :
          handleCreateLessonPlan(c, t, f, dr)
    \/ \E c \in Clients, id \in CreatePlanIds : ClickSubmit(c, id)
    \/ \E c \in Clients, id \in CreatePlanIds : ClickRecall(c, id)
    \/ \E c \in Clients, id \in CreatePlanIds, t \in TitleInputs, f \in FileInputs,
          dr \in BOOLEAN : handleSaveLessonPlan(c, id, t, f, dr)
    \/ \E c \in Clients, id \in CreatePlanIds, t \in TextInputs : handleAddComment(c, id, t)

SpecCreate == Init /\ [][NextCreate]_vars

----------------------------------------------------------------------------
(* What the specification of the workflow requires, in the model's terms   *)

(* The rows of the transition table: <<current status, target status>> *)
TransitionTable ==
    {<<DRAFT, SUBMITTED>>, <<SUBMITTED, APPROVED_BY_TL>>, <<SUBMITTED, REJECTED_BY_TL>>,
     <<SUBMITTED, DRAFT>>, <<APPROVED_BY_TL, SUBMITTED>>, <<APPROVED_BY_TL, DRAFT>>,
     <<APPROVED_BY_TL, APPROVED>>, <<APPROVED_BY_TL, REJECTED_BY_VP>>,
     <<APPROVED, APPROVED_BY_TL>>, <<REJECTED_BY_TL, SUBMITTED>>,
     <<REJECTED_BY_VP, SUBMITTED>>}

(* TeamApprove, TeamReject, TeamCancel *)
TeamTier ==
    {<<SUBMITTED, APPROVED_BY_TL>>, <<SUBMITTED, REJECTED_BY_TL>>,
     <<APPROVED_BY_TL, SUBMITTED>>}

(* InstitutionApprove, InstitutionReject, InstitutionCancel *)
InstitutionTier ==
    {<<APPROVED_BY_TL, APPROVED>>, <<APPROVED_BY_TL, REJECTED_BY_VP>>,
     <<APPROVED, APPROVED_BY_TL>>}

(* Submit, Recall, ReviseAndResubmit *)
OwnerTier ==
    {<<DRAFT, SUBMITTED>>, <<SUBMITTED, DRAFT>>, <<APPROVED_BY_TL, DRAFT>>,
     <<REJECTED_BY_TL, SUBMITTED>>, <<REJECTED_BY_VP, SUBMITTED>>}

(* The step answers the status request r for a plan the server holds *)
IsStatusRequest(r) == r.op = "PutStatus" /\ HasPlan(db.lessonPlans, r.id)

(* <<status before the request, status asked for>> *)
Asked(r) == <<FindPlan(db.lessonPlans, r.id).status, r.newStatus>>

(* The user the request r comes from, as the server knows them before it *)
Actor(r) == FindUser(db.users, r.sender)

(* The plan of request r is as it was *)
PlanUnchanged(r) == FindPlan(db'.lessonPlans, r.id) = FindPlan(db.lessonPlans, r.id)

(* The delegation that applies to one school: the flag of its principal   *)
(* and the flags of its teams                                             *)
DelegationOf(d, school) ==
    LET SchoolTeams == {d.teams[i].id : i \in {j \in 1..Len(d.teams) :
                                                 d.teams[j].schoolId = school}}
    IN  [principalToVp |-> d.delegation.principalToVp,
         teamDelegation |-> [t \in SchoolTeams |-> d.delegation.teamDelegation[t]]]

----------------------------------------------------------------------------
(* C1: a status request whose pair (current status, requested status) is  *)
(* not a row of the transition table fails, and the plan (status, history, *)
(* finalApprover) is as it was.                                            *)
C1_InvalidTransitionRejected ==
    [][(IsStatusRequest(resp') /\ Asked(resp') \notin TransitionTable)
          => (resp'.code # 200 /\ PlanUnchanged(resp'))]_vars

(* C2: of two requests for the same transition on the same plan, sent     *)
(* from the same status, one fails: a request a session sends from a view *)
(* that still shows the old status, when the server already holds the     *)
(* status asked for, is refused and appends no history entry.             *)
C2_RaceOneSucceeds ==
    [][(/\ IsStatusRequest(resp')
        /\ resp'.client \in Clients
        /\ HasPlan(app[resp'.client].lessonPlans, resp'.id)
        /\ FindPlan(app[resp'.client].lessonPlans, resp'.id).status
              # FindPlan(db.lessonPlans, resp'.id).status
        /\ FindPlan(db.lessonPlans, resp'.id).status = resp'.newStatus)
          => (/\ resp'.code # 200
              /\ FindPlan(db'.lessonPlans, resp'.id).history
                    = FindPlan(db.lessonPlans, resp'.id).history)]_vars

(* C3: Issued is terminal: no request changes the status of a plan whose  *)
(* status is Issued.                                                       *)
C3_IssuedTerminal ==
    [][\A i \in 1..Len(db.lessonPlans) :
          db.lessonPlans[i].status = ISSUED => db'.lessonPlans[i].status = ISSUED]_vars

(* C4: a status request succeeds only if the school of the user it comes  *)
(* from is the school of the plan, and that user is not the global admin. *)
C4_TenantScope ==
    [][(IsStatusRequest(resp') /\ resp'.code = 200)
          => (/\ Actor(resp').schoolId = FindPlan(db.lessonPlans, resp'.id).schoolId
              /\ Actor(resp').role # ADMIN)]_vars

(* C5: a team-tier transition succeeds only if, when the request is       *)
(* handled, its sender is the leader of the plan's team, or a deputy of   *)
(* that team while the server's teamDelegation flag of the team is true.  *)
C5_TeamTierGuard ==
    [][(IsStatusRequest(resp') /\ resp'.code = 200 /\ Asked(resp') \in TeamTier)
          => LET u == Actor(resp')
                 plan == FindPlan(db.lessonPlans, resp'.id)
             IN  \/ u.role = TEAM_LEADER /\ u.teamId = plan.teamId
                 \/ /\ u.role = DEPUTY_TEAM_LEADER
                    /\ u.teamId = plan.teamId
                    /\ db.delegation.teamDelegation[plan.teamId]]_vars

(* C6: an institution-tier transition succeeds only if, when the request  *)
(* is handled, its sender is a principal, or a vice principal while the   *)
(* server's principalToVp flag is true.                                   *)
C6_InstitutionTierGuard ==
    [][(IsStatusRequest(resp') /\ resp'.code = 200 /\ Asked(resp') \in InstitutionTier)
          => LET u == Actor(resp')
             IN  \/ u.role = PRINCIPAL
                 \/ u.role = VICE_PRINCIPAL /\ db.delegation.principalToVp]_vars

(* C7: an owner-only transition (submit, recall, revise and resubmit) or  *)
(* an edit of the details, sent by anyone but the teacher who submitted   *)
(* the plan, is refused and leaves the plan as it was.                    *)
C7_OwnerOnly ==
    [][(/\ \/ IsStatusRequest(resp') /\ Asked(resp') \in OwnerTier
           \/ resp'.op = "PutLessonPlan" /\ HasPlan(db.lessonPlans, resp'.id)
        /\ ~ (/\ Actor(resp').id = FindPlan(db.lessonPlans, resp'.id).submittedBy.id
              /\ Actor(resp').role = TEACHER))
          => (resp'.code # 200 /\ PlanUnchanged(resp'))]_vars

(* C8: a reject request (team or institution) without a reason fails and  *)
(* leaves the status and the history of the plan as they were.            *)
C8_RejectNeedsReason ==
    [][(/\ IsStatusRequest(resp')
        /\ resp'.newStatus \in {REJECTED_BY_TL, REJECTED_BY_VP}
        /\ ~ Truthy(Trim(resp'.reason)))
          => (/\ resp'.code # 200
              /\ FindPlan(db'.lessonPlans, resp'.id).status
                    = FindPlan(db.lessonPlans, resp'.id).status
              /\ FindPlan(db'.lessonPlans, resp'.id).history
                    = FindPlan(db.lessonPlans, resp'.id).history)]_vars

(* C9: delegation is additive. Whatever the delegation flags are, in the  *)
(* session's copy and at the server, a team leader passes the team guard  *)
(* for every plan of their team and gets the team-tier buttons of its     *)
(* status, and a principal passes the institution guard and gets the      *)
(* institution-tier buttons.                                              *)
C9_DelegationAdditive ==
    \A c \in Clients :
        LET u == app[c].currentUser
        IN  \A i \in 1..Len(app[c].lessonPlans), d \in {app[c].delegation, db.delegation} :
                LET plan == app[c].lessonPlans[i]
                    shown == renderApprovalActions(u, plan, d)
                IN  /\ (u.role = TEAM_LEADER /\ u.teamId = plan.teamId)
                          => /\ canApproveTeam(u, plan, d)
                             /\ plan.status = SUBMITTED => shown = {"approve", "reject"}
                             /\ plan.status = APPROVED_BY_TL => shown = {"cancel"}
                    /\ u.role = PRINCIPAL
                          => /\ canApprovePrincipal(u, d)
                             /\ plan.status = APPROVED_BY_TL => shown = {"approve", "reject"}
                             /\ plan.status = APPROVED => shown = {"cancel"}

(* C9, reached: the leader of team 1, whose session still shows the flag  *)
(* of the team on, has a team-tier request answered 200 after the flag    *)
(* was switched off at the server.                                        *)
C9_LeaderActsFlagOff ==
    /\ resp.op = "PutStatus" /\ resp.client = "c1" /\ resp.sender = 4 /\ resp.code = 200
    /\ app["c1"].currentUser.role = TEAM_LEADER
    /\ app["c1"].delegation.teamDelegation[1]
    /\ ~ db.delegation.teamDelegation[1]

(* C10: delegation is per school: a change made in the admin panel for    *)
(* one school leaves the delegation that applies to every other school    *)
(* as it was.                                                             *)
C10_DelegationPerSchool ==
    [][(resp'.op = "PutDelegation" /\ resp'.client \in Clients)
          => \A i \in 1..Len(db.schools) :
                db.schools[i] # resp'.school
                   => DelegationOf(db', db.schools[i]) = DelegationOf(db, db.schools[i])]_vars

(* a is a prefix of b *)
IsPrefix(a, b) == Len(a) <= Len(b) /\ \A i \in 1..Len(a) : a[i] = b[i]

(* C11: history is append-only: over every step, the history a plan had   *)
(* before (as served and persisted) is a prefix of the history it has     *)
(* after.                                                                 *)
C11_HistoryAppendOnly ==
    [][\A i \in 1..Len(db.lessonPlans) :
          LET id == db.lessonPlans[i].id
          IN  HasPlan(db'.lessonPlans, id)
                 => IsPrefix(writeDb(db).lessonPlans[i].history,
                             FindPlan(writeDb(db').lessonPlans, id).history)]_vars

(* The labels of the transitions: HistoryAction without the label the    *)
(* switch keeps for a status it does not know                             *)
CanonicalLabels == HistoryAction \ {"Cap nhat trang thai"}

(* C12: in every state, the action of every history entry of every plan   *)
(* is one of the canonical transition labels, never the fallback label.   *)
C12_CanonicalLabelsOnly ==
    \A i \in 1..Len(db.lessonPlans) :
        \A j \in 1..Len(db.lessonPlans[i].history) :
            db.lessonPlans[i].history[j].action \in CanonicalLabels

(* The label of each row of the transition table *)
CanonicalLabel(row) ==
    CASE row = <<DRAFT, SUBMITTED>> -> "Nop Ke hoach bai day"
      [] row \in {<<REJECTED_BY_TL, SUBMITTED>>, <<REJECTED_BY_VP, SUBMITTED>>}
            -> "Nop lai Ke hoach bai day"
      [] row = <<SUBMITTED, APPROVED_BY_TL>> -> "To truong da duyet"
      [] row = <<SUBMITTED, REJECTED_BY_TL>> -> "To truong tu choi"
      [] row = <<APPROVED_BY_TL, SUBMITTED>> -> "To truong huy duyet"
      [] row = <<APPROVED_BY_TL, APPROVED>> -> "Hieu truong da duyet"
      [] row = <<APPROVED_BY_TL, REJECTED_BY_VP>> -> "Hieu truong tu choi"
      [] row = <<APPROVED, APPROVED_BY_TL>> -> "Hieu truong huy duyet"
      [] row \in {<<SUBMITTED, DRAFT>>, <<APPROVED_BY_TL, DRAFT>>} -> "Thu hoi de chinh sua"

(* C13: the entry a successful transition appends carries the label of    *)
(* its row (status before, status asked for), not a label chosen from the *)
(* status asked for alone.                                                *)
C13_LabelOfTransition ==
    [][(IsStatusRequest(resp') /\ resp'.code = 200 /\ Asked(resp') \in TransitionTable)
          => LET history == FindPlan(db'.lessonPlans, resp'.id).history
             IN  history[Len(history)].action = CanonicalLabel(Asked(resp'))]_vars

(* C14: every entry a successful request appends (a history entry of a    *)
(* status change, an edit or a creation, or a comment) has as its user    *)
(* the user the request comes from.                                       *)
C14_ActorIsInvoker ==
    [][(/\ resp'.op \in {"PutStatus", "PutLessonPlan", "PostLessonPlan", "PostComment"}
        /\ resp'.code \in {200, 201})
          => LET after == FindPlan(db'.lessonPlans, resp'.id)
                 historyBefore == IF HasPlan(db.lessonPlans, resp'.id)
                                  THEN FindPlan(db.lessonPlans, resp'.id).history ELSE << >>
                 commentsBefore == IF HasPlan(db.lessonPlans, resp'.id)
                                   THEN FindPlan(db.lessonPlans, resp'.id).comments ELSE << >>
             IN  /\ \A j \in (Len(historyBefore) + 1)..Len(after.history) :
                       after.history[j].user.id = resp'.sender
                 /\ \A j \in (Len(commentsBefore) + 1)..Len(after.comments) :
                       after.comments[j].user.id = resp'.sender]_vars

(* The roles that the entries and comments of the plans of d show, in the *)
(* order of the plans, entries and comments                               *)
ShownRoles(d) ==
    [i \in 1..Len(d.lessonPlans) |->
        [history |-> [j \in 1..Len(d.lessonPlans[i].history) |->
                         d.lessonPlans[i].history[j].user.role],
         comments |-> [j \in 1..Len(d.lessonPlans[i].comments) |->
                          d.lessonPlans[i].comments[j].user.role]]]

(* C15: the user of an entry or a comment is a snapshot: a role           *)
(* assignment or a user update leaves the role that every recorded entry  *)
(* and comment shows as it was, in the served data and in the file.       *)
C15_ActorSnapshot ==
    [][(resp'.op \in {"AssignRole", "PutUser"})
          => (/\ ShownRoles(db') = ShownRoles(db)
              /\ ShownRoles(writeDb(db')) = ShownRoles(writeDb(db)))]_vars

(* C16: in every state, a plan whose finalApprover is set has status      *)
(* Issued.                                                                *)
C16_FinalApproverOnlyIssued ==
    \A i \in 1..Len(db.lessonPlans) :
        db.lessonPlans[i].finalApprover # NoUser => db.lessonPlans[i].status = ISSUED

(* C17: an edit request for a plan whose status is not Draft,             *)
(* RejectedByTeam or RejectedByInstitution is refused and leaves the plan *)
(* (details, file, status, history) as it was.                            *)
C17_EditOnlyWhenEditable ==
    [][(/\ resp'.op = "PutLessonPlan"
        /\ HasPlan(db.lessonPlans, resp'.id)
        /\ FindPlan(db.lessonPlans, resp'.id).status
              \notin {DRAFT, REJECTED_BY_TL, REJECTED_BY_VP})
          => (resp'.code # 200 /\ PlanUnchanged(resp'))]_vars

(* Submit and ReviseAndResubmit, the rows an edit may take *)
EditRows ==
    {<<DRAFT, SUBMITTED>>, <<REJECTED_BY_TL, SUBMITTED>>, <<REJECTED_BY_VP, SUBMITTED>>}

(* C18: an edit changes the status only along Draft -> Submitted or       *)
(* Rejected -> Submitted, and appends a history entry only when it takes  *)
(* one of these rows.                                                     *)
C18_EditThroughStateMachine ==
    [][(resp'.op = "PutLessonPlan" /\ resp'.code = 200)
          => LET before == FindPlan(db.lessonPlans, resp'.id)
                 after == FindPlan(db'.lessonPlans, resp'.id)
             IN  /\ after.status # before.status
                       => <<before.status, after.status>> \in EditRows
                 /\ after.history # before.history
                       => <<before.status, after.status>> \in EditRows]_vars

(* The step answers a status, edit or comment request for an id that no  *)
(* plan has                                                               *)
IsRequestForMissing(r) ==
    /\ r.op \in {"PutStatus", "PutLessonPlan", "PostComment"}
    /\ ~ HasPlan(db.lessonPlans, r.id)

----------------------------------------------------------------------------
(* SpecTeams: the requests of the administration window: users, teams,    *)
(* positions of a team and schools                                        *)

(* Date.now() as the id of a new user / a new team: a number above the   *)
(* ids of MOCK_DATA and above every id in use (NewId)                    *)
RECURSIVE MaxId(_)
MaxId(arr) ==
    IF arr = << >> THEN 0
    ELSE LET rest == MaxId(Tail(arr))
         IN  IF Head(arr).id > rest THEN Head(arr).id ELSE rest

NewId(arr, mock) ==
    IF MaxId(arr) > MaxId(mock) THEN MaxId(arr) + 1 ELSE MaxId(mock) + 1

(* The elements of arr that were created after MOCK_DATA *)
Created(arr, mock) == {i \in 1..Len(arr) : arr[i].id > MaxId(mock)}

(* POST /api/users ; role "" stands for a body without role *)
PostUser(d, newUserDetails) ==
    LET newUser == [id |-> NewId(d.users, MOCK_DATA.users),
                    role |-> IF newUserDetails.role = "" THEN TEACHER
                             ELSE newUserDetails.role,
                    teamId |-> newUserDetails.teamId,
                    schoolId |-> newUserDetails.schoolId,
                    ref |-> LiveRef]
    IN  [db |-> [d EXCEPT !.users = Append(@, newUser)], code |-> 201]

(* POST /api/teams *)
PostTeam(d, schoolId) ==
    LET newTeam == [id |-> NewId(d.teams, MOCK_DATA.teams), leaderId |-> 0, deputyLeaderId |-> 0,
                    schoolId |-> schoolId]
    IN  [db |-> [d EXCEPT !.teams = Append(@, newTeam)], code |-> 201]

(* The deletion as the window applies it to its own copy after the     *)
(* answer: only the list of schools is filtered                        *)
DeleteSchoolOnly(d, id) ==
    LET keepSchool(s) == s # id
    IN  [db |-> [d EXCEPT !.schools = SelectSeq(@, keepSchool)], code |-> 204]

(* DELETE /api/schools/:id *)
DeleteSchool(d, id) ==
    LET keepSchool(s) == s # id
        keepScoped(x) == x.schoolId # id
    IN  [db |-> [d EXCEPT !.schools = SelectSeq(@, keepSchool),
                          !.teams = SelectSeq(@, keepScoped),
                          !.users = SelectSeq(@, keepScoped),
                          !.lessonPlans = SelectSeq(@, keepScoped)],
         code |-> 204]

MaxNewUsers == 1
MaxNewTeams == 1

ApiPostUser(sender, newUserDetails) ==
    LET r == PostUser(db, newUserDetails)
    IN  /\ Cardinality(Created(db.users, MOCK_DATA.users)) < MaxNewUsers
        /\ db' = r.db
        /\ disk' = Saved(r)
        /\ resp' = [op |-> "PostUser", client |-> "api", sender |-> sender,
                    code |-> r.code, id |-> NewId(db.users, MOCK_DATA.users)]
        /\ UNCHANGED app

ApiPostTeam(sender, schoolId) ==
    LET r == PostTeam(db, schoolId)
    IN  /\ Cardinality(Created(db.teams, MOCK_DATA.teams)) < MaxNewTeams
        /\ db' = r.db
        /\ disk' = Saved(r)
        /\ resp' = [op |-> "PostTeam", client |-> "api", sender |-> sender,
                    code |-> r.code, id |-> NewId(db.teams, MOCK_DATA.teams)]
        /\ UNCHANGED app

ApiDeleteSchool(sender, id) ==
    LET r == DeleteSchool(db, id)
    IN  /\ db' = r.db
        /\ disk' = Saved(r)
        /\ resp' = [op |-> "DeleteSchool", client |-> "api", sender |-> sender,
                    code |-> r.code, id |-> id]
        /\ UNCHANGED app

TeamInputs == {1, 2}
TeamUserInputs == {0, 4, 5}
NewUserInputs == {[role |-> "", teamId |-> 1, schoolId |-> BINHSON]}
TeamUserUpdateInputs == {[role |-> TEAM_LEADER]}
SchoolInputs == {BINHSON, SONTINH}

NextTeams ==
    \/ \E t \in TeamInputs, ty \in RoleTypeInputs, u \in TeamUserInputs :
          ApiAssignRole(2, t, ty, u)
    \/ \E d \in TeamUserUpdateInputs : ApiPutUser(2, 6, d)
    \/ \E s \in SchoolInputs : ApiDeleteSchool(1, s)

SpecTeams == Init /\ [][NextTeams]_vars

(* The id a position of a team holds *)
Holder(team, roleType) ==
    IF roleType = "leader" THEN team.leaderId ELSE team.deputyLeaderId

RoleOfSlot(roleType) ==
    IF roleType = "leader" THEN TEAM_LEADER ELSE DEPUTY_TEAM_LEADER

(* C21: an accepted assign-role of user Y to a position that user X # Y  *)
(* holds is one step, after which X (when X is a user) is a teacher, Y    *)
(* (when Y is a user) has the role of the position and the team names Y   *)
(* in the position; with no Y the position is empty and X is a teacher.   *)
C21_AssignRoleAtomic ==
    [][ (resp'.op = "AssignRole" /\ resp'.code = 200) =>
          LET teamIndex == FindIndex(db.teams, resp'.id)
              X == Holder(db.teams[teamIndex], resp'.roleType)
              Y == resp'.userId
          IN  (X # 0 /\ X # Y) =>
                /\ Holder(db'.teams[teamIndex], resp'.roleType) = Y
                /\ FindIndex(db.users, X) # 0 =>
                      FindUser(db'.users, X).role = TEACHER
                /\ (Y # 0 /\ FindIndex(db.users, Y) # 0) =>
                      FindUser(db'.users, Y).role = RoleOfSlot(resp'.roleType) ]_vars

(* user 5 has taken the leader's position of team 1 from user 4 *)
C21_LeaderReplaced ==
    /\ resp.op = "AssignRole" /\ resp.code = 200
    /\ resp.id = 1 /\ resp.roleType = "leader" /\ resp.userId = 5
    /\ resp.updatedUsers = << 4, 5 >>
    /\ FindIndex(db.teams, 1) # 0
    /\ db.teams[FindIndex(db.teams, 1)].leaderId = 5
    /\ FindUser(db.users, 4).role = TEACHER
    /\ FindUser(db.users, 5).role = TEAM_LEADER

----------------------------------------------------------------------------
(* SpecReassign: a reviewer's open session and its buttons, while the     *)
(* principal's session assigns the positions of team 1                    *)
ReviewerInputs == {4, 5}

NextReassign ==
    \/ \E c \in Clients, u \in ReviewerInputs : handleLogin(c, u)
    \/ \E c \in Clients : handleLogout(c)
    \/ \E c \in Clients : initializeApp(c)
    \/ \E c \in Clients, id \in UiPlanIds, t \in {"approve", "reject", "cancel"},
          r \in ReasonInputs : ClickApproval(c, id, t, r)
    \/ \E ty \in RoleTypeInputs, u \in ReviewerInputs : ApiAssignRole(2, 1, ty, u)

SpecReassign == Init /\ [][NextReassign]_vars

(* The leader that MOCK_DATA gives the team *)
FirstLeader(teamId) == MOCK_DATA.teams[FindIndex(MOCK_DATA.teams, teamId)].leaderId

(* C22: once the leader's position of a team has passed from X to another *)
(* user (X is a teacher and the team names somebody else), no team-tier   *)
(* request of X for a plan of that team succeeds, open session or not.    *)
C22_FormerLeaderDenied ==
    [][ (IsStatusRequest(resp') /\ Asked(resp') \in TeamTier) =>
          LET plan == FindPlan(db.lessonPlans, resp'.id)
              team == db.teams[FindIndex(db.teams, plan.teamId)]
              X == resp'.sender
          IN  (/\ X = FirstLeader(plan.teamId)
               /\ team.leaderId # X
               /\ team.leaderId # 0
               /\ Actor(resp').role = TEACHER)
                => resp'.code # 200 ]_vars

----------------------------------------------------------------------------
(* C23: no team names the same user as its leader and as its deputy.     *)
C23_NoDoubleSlot ==
    \A i \in 1..Len(db.teams) :
        db.teams[i].leaderId = 0 \/ db.teams[i].leaderId # db.teams[i].deputyLeaderId

(* The teams that name user id in the position roleType *)
TeamsNaming(d, roleType, id) ==
    {j \in 1..Len(d.teams) : Holder(d.teams[j], roleType) = id}

(* The role of user u agrees with the positions the teams record *)
RoleMatchesSlot(d, u, roleType) ==
    u.role = RoleOfSlot(roleType)
        <=> /\ Cardinality(TeamsNaming(d, roleType, u.id)) = 1
            /\ \A j \in TeamsNaming(d, roleType, u.id) : d.teams[j].id = u.teamId

(* C24: a user is a team leader (deputy) exactly when one team, the team *)
(* of the user's teamId, names the user as its leader (deputy).          *)
C24_RoleTeamConsistent ==
    \A i \in 1..Len(db.users) :
        /\ RoleMatchesSlot(db, db.users[i], "leader")
        /\ RoleMatchesSlot(db, db.users[i], "deputy")

----------------------------------------------------------------------------
(* SpecSchools: schools are deleted while users and teams are created and *)
(* plans of both schools are reviewed, edited and commented               *)
SchoolPlanIds == {1, 6}

NextSchools ==
    \/ \E s \in SchoolInputs : ApiDeleteSchool(1, s)
    \/ \E d \in NewUserInputs : ApiPostUser(2, d)
    \/ ApiPostTeam(2, SONTINH)
    \/ \E id \in SchoolPlanIds : ApiPutStatus(4, id, APPROVED_BY_TL, "")
    \/ \E dt \in DetailsInputs : ApiPutLessonPlan(6, 1, dt, "", TRUE)
    \/ ApiPostComment(4, 6, "hi")

SpecSchools == Init /\ [][NextSchools]_vars

(* The elements of arr that school id does not hold *)
OutsideSchool(arr, id) ==
    LET other(x) == x.schoolId # id
    IN  SelectSeq(arr, other)

(* C25: deleting school S leaves exactly the other schools and the teams, *)
(* users and plans whose schoolId is not S, each as it was and in the    *)
(* same order; no other request removes a plan.                           *)
C25_DeleteSchoolCascade ==
    [][ IF resp'.op = "DeleteSchool"
        THEN LET S == resp'.id
                 otherSchool(s) == s # S
             IN  /\ db'.schools = SelectSeq(db.schools, otherSchool)
                 /\ db'.teams = OutsideSchool(db.teams, S)
                 /\ db'.users = OutsideSchool(db.users, S)
                 /\ db'.lessonPlans = OutsideSchool(db.lessonPlans, S)
        ELSE /\ Len(db'.lessonPlans) >= Len(db.lessonPlans)
             /\ \A i \in 1..Len(db.lessonPlans) :
                    db'.lessonPlans[i].id = db.lessonPlans[i].id ]_vars

(* school BINHSON has been deleted after plan 6 of the other school was  *)
(* reviewed: that plan, the other school's team and users remain          *)
C25_SchoolDeleted ==
    /\ resp.op = "DeleteSchool" /\ resp.id = BINHSON /\ resp.code = 204
    /\ db.schools = << SONTINH >>
    /\ Len(db.lessonPlans) = 1
    /\ db.lessonPlans[1].id = 6
    /\ db.lessonPlans[1].status = APPROVED_BY_TL
    /\ Len(db.teams) = 1
    /\ \A i \in 1..Len(db.users) : db.users[i].schoolId # BINHSON
    /\ Len(db.users) = 4

----------------------------------------------------------------------------
(* SpecView: sessions of every role look at their dashboard while plans  *)
(* of both schools change status                                          *)
ViewerInputs == {1, 2, 3, 4, 5, 6, 10}
ViewStatusInputs == {APPROVED_BY_TL, DRAFT}

NextView ==
    \/ \E c \in Clients, u \in ViewerInputs : handleLogin(c, u)
    \/ \E c \in Clients : handleLogout(c)
    \/ \E c \in Clients : initializeApp(c)
    \/ \E id \in SchoolPlanIds, st \in ViewStatusInputs : ApiPutStatus(4, id, st, "")

SpecView == Init /\ [][NextView]_vars

(* The plans of the session's copy that belong to the actor's school *)
TenantPlans(a) ==
    LET inTenant(p) == p.schoolId = a.currentUser.schoolId
    IN  SelectSeq(a.lessonPlans, inTenant)

(* The visible plans the specification names for each role other than   *)
(* the super-admin                                                       *)
ListedFor(u, plans) ==
    LET shown(p) ==
          \/ u.role = TEACHER /\ p.submittedBy.id = u.id
          \/ u.role \in {TEAM_LEADER, DEPUTY_TEAM_LEADER} /\ p.teamId = u.teamId
          \/ u.role = VICE_PRINCIPAL
                /\ p.status \in {APPROVED_BY_TL, REJECTED_BY_VP, APPROVED, ISSUED}
          \/ u.role = PRINCIPAL
    IN  SelectSeq(plans, shown)

Range(seq) == {seq[i] : i \in 1..Len(seq)}

(* A principal's list holds every plan a team leader of the school sees *)
PrincipalSeesTeams(a) ==
    a.currentUser.role = PRINCIPAL =>
        \A i \in 1..Len(MOCK_USERS) :
            (MOCK_USERS[i].role = TEAM_LEADER
                /\ MOCK_USERS[i].schoolId = a.currentUser.schoolId)
            => Range(baseVisiblePlans(MOCK_USERS[i], TenantPlans(a))) \subseteq Range(Cards(a))

----------------------------------------------------------------------------
(* SpecPersist: requests that arrive while the fs.writeFile of an earlier *)
(* request is still in flight.  A handler runs up to its `await           *)
(* writeDb()`: db is changed, JSON.stringify(db) is taken and the write   *)
(* is started; the answer is sent when the write settles.  Node runs the  *)
(* writes of one file in no fixed order, so any write in flight may be    *)
(* the next that settles.                                                 *)
MaxInFlight == 2

(* writeDb up to its await: the text of d is handed to fs.writeFile *)
Started(r) ==
    IF r.code \in Written THEN [disk EXCEPT !.pending = @ \cup {writeDb(r.db)}] ELSE disk

(* 0: the answer is not sent yet *)
AnswerOf(r) == IF r.code \in Written THEN 0 ELSE r.code

PutStatusAwait(sender, id, newStatus, reason) ==
    LET r == PutStatus(db, id, newStatus, reason)
    IN  /\ Cardinality(disk.pending) < MaxInFlight
        /\ Bounded(r.db)
        /\ db' = r.db
        /\ disk' = Started(r)
        /\ resp' = [op |-> "PutStatus", client |-> "api", sender |-> sender,
                    code |-> AnswerOf(r), id |-> id, newStatus |-> newStatus,
                    reason |-> reason]
        /\ UNCHANGED app

PostCommentAwait(sender, id, text) ==
    LET r == PostComment(db, id, text)
    IN  /\ Cardinality(disk.pending) < MaxInFlight
        /\ Bounded(r.db)
        /\ db' = r.db
        /\ disk' = Started(r)
        /\ resp' = [op |-> "PostComment", client |-> "api", sender |-> sender,
                    code |-> AnswerOf(r), id |-> id, text |-> text]
        /\ UNCHANGED app

(* fs.writeFile of a text w settles: db.json holds w, and the handler   *)
(* that awaited it sends its answer                                      *)
writeDbSettled ==
    \E w \in disk.pending :
        /\ disk' = [file |-> w, pending |-> disk.pending \ {w}]
        /\ resp' = [op |-> "writeDb", client |-> "none", sender |-> 0, code |-> 200]
        /\ UNCHANGED <<db, app>>

NextPersist ==
    \/ \E id \in SchoolPlanIds, st \in ViewStatusInputs : PutStatusAwait(4, id, st, "")
    \/ \E id \in SchoolPlanIds : PostCommentAwait(4, id, "hi")
    \/ writeDbSettled
    \/ startServer

SpecPersist == Init /\ [][NextPersist]_vars

(* C27: when no write is in flight, so that every request has been       *)
(* answered, db.json holds the text of the in-memory db, which a restart  *)
(* would load.                                                            *)
C27_AcknowledgedIsPersisted ==
    disk.pending = {} => disk.file = writeDb(db)

----------------------------------------------------------------------------
(* The transition relation of the client: the pairs <<status, new status>> *)
(* that the buttons of a card can ask for, over every user of MOCK_USERS,  *)
(* every status of the first plan the server holds and every delegation    *)
PlanWithStatus(s) == [db.lessonPlans[1] EXCEPT !.status = s]

(* What saving the edit form asks the server to make of the plan's status *)
SavedStatus(s, isDraft) ==
    LET d == [db EXCEPT !.lessonPlans[1].status = s]
        id == db.lessonPlans[1].id
    IN  FindPlan(PutLessonPlan(d, id, [title |-> "t1"], "", isDraft).db.lessonPlans, id).status

Emits(u, s, del) ==
    LET plan == PlanWithStatus(s)
        shown == Buttons([currentUser |-> u, delegation |-> del], plan)
        asked(t) == CASE t \in {"approve", "reject", "cancel"} ->
                             {handleConfirmAction(t, "r", u, plan)}
                      [] t = "submit" -> {SUBMITTED}
                      [] t = "recall" -> {DRAFT}
                      [] t = "edit" -> {SavedStatus(s, dr) : dr \in BOOLEAN}
    IN  {<<s, n>> : n \in (UNION {asked(t) : t \in shown}) \ {"return", s}}

ClientRelation ==
    UNION {Emits(MOCK_USERS[i], s, del) :
              i \in 1..Len(MOCK_USERS), s \in Status, del \in DelegationInputs}

Incoming(R, s) == {row \in R : row[2] = s}
Outgoing(R, s) == {row \in R : row[1] = s}

----------------------------------------------------------------------------
----------------------------------------------------------------------------
(* C30: a toggle of one delegation flag by a session leaves every other  *)
(* flag of the server as it was, whatever other sessions have changed    *)
(* since the session fetched its copy.  The toggled flag is the one in   *)
(* which the object the session sends differs from the session's copy.   *)
C30_ToggleKeepsOtherFlags ==
    [][ (resp'.op = "PutDelegation" /\ resp'.client \in Clients) =>
          LET held == app[resp'.client].delegation
              sent == app'[resp'.client].delegation
          IN  /\ held.principalToVp = sent.principalToVp
                    => db'.delegation.principalToVp = db.delegation.principalToVp
              /\ \A t \in DOMAIN held.teamDelegation :
                    held.teamDelegation[t] = sent.teamDelegation[t]
                    => db'.delegation.teamDelegation[t] = db.delegation.teamDelegation[t] ]_vars

====
